---- MODULE Spec2Model ----
(***************************************************************************)
(* Model of qualtran/resource_counting/_surface_code_counts.py:            *)
(*   DetailedGateCounts  - the cost value (13 named counters) with its     *)
(*                         __add__, __mul__, __rmul__, asdict and __str__  *)
(*   SurfaceCodeGatesCost.compute - the leaf classification cascade and    *)
(*                         the recursive fold over the callees             *)
(* The memoising driver (get_cost_value), the callee enumerator            *)
(* (get_bloq_callee_counts) and the classify_bloqs predicates live outside *)
(* that file; they are modelled at their interface.                        *)
(***************************************************************************)
EXTENDS Integers, Sequences, FiniteSets, TLC

VARIABLES units, root, pc, arg, retval, stack, memo, computeCalls, enumCalls,
          result, failed, run, direct, alg, rnd

evalVars == <<units, root, pc, arg, retval, stack, memo, computeCalls,
              enumCalls, result, failed, run, direct>>
vars == <<units, root, pc, arg, retval, stack, memo, computeCalls, enumCalls,
          result, failed, run, direct, alg, rnd>>

(***************************************************************************)
(* Bounds of the model.                                                    *)
(***************************************************************************)
MaxMult == 2
MaxBitsize == 2
MaxArity == 3
MaxCoeff == 2
MaxScalar == 2

(***************************************************************************)
(* SymbolicInt: a Python int, or a sympy expression c + n*sym in one       *)
(* symbol.  The tag keeps a sympy Integer apart from a Python int; Python  *)
(* equality does not see the tag, truthiness and str() go through sympy.   *)
(***************************************************************************)
PyInt(k) == [tag |-> "int", c |-> k, n |-> 0]
Sym(k, a) == [tag |-> "sympy", c |-> k, n |-> a]
NoneVal == [tag |-> "none", c |-> 0, n |-> 0]

\* x + y on counter values
SAdd(x, y) ==
  [tag |-> IF x.tag = "int" /\ y.tag = "int" THEN "int" ELSE "sympy",
   c |-> x.c + y.c, n |-> x.n + y.n]

\* k * x for an integer scalar k
STimes(k, x) == [tag |-> x.tag, c |-> k * x.c, n |-> k * x.n]

\* x == y in Python: by numeric value, whatever the representation
SEq(x, y) == x.c = y.c /\ x.n = y.n

(***************************************************************************)
(* DetailedGateCounts                                                      *)
(***************************************************************************)
FieldOrder ==
  <<"t", "toffoli", "cswap", "and_bloq", "rotation", "hadamard", "s_gate",
    "cnot", "arbitrary_1q_clifford", "arbitrary_2q_clifford",
    "multi_control_pauli_count", "multi_control_pauli_total_targets",
    "measurement_total_qubits">>

Fields == {FieldOrder[i] : i \in 1..Len(FieldOrder)}

TypeError == [error |-> "TypeError"]

\* the attrs-generated keyword-only constructor: every field defaults to 0,
\* an unknown keyword raises TypeError
DetailedGateCounts(kw) ==
  IF DOMAIN kw \subseteq Fields
    THEN [f \in Fields |-> IF f \in DOMAIN kw THEN kw[f] ELSE PyInt(0)]
    ELSE TypeError

IsDetailedGateCounts(v) == DOMAIN v = Fields

\* the attrs-generated __eq__: field by field
Eq(a, b) ==
  /\ IsDetailedGateCounts(a)
  /\ IsDetailedGateCounts(b)
  /\ \A f \in Fields : SEq(a[f], b[f])

__add__(self, other) ==
  IF ~IsDetailedGateCounts(other) THEN TypeError
  ELSE DetailedGateCounts(
    [t |-> SAdd(self.t, other.t),
     toffoli |-> SAdd(self.toffoli, other.toffoli),
     cswap |-> SAdd(self.cswap, other.cswap),
     and_bloq |-> SAdd(self.and_bloq, other.and_bloq),
     rotation |-> SAdd(self.rotation, other.rotation),
     hadamard |-> SAdd(self.hadamard, other.hadamard),
     s_gate |-> SAdd(self.s_gate, other.s_gate),
     cnot |-> SAdd(self.cnot, other.cnot),
     arbitrary_1q_clifford |->
       SAdd(self.arbitrary_1q_clifford, other.arbitrary_1q_clifford),
     arbitrary_2q_clifford |->
       SAdd(self.arbitrary_2q_clifford, other.arbitrary_2q_clifford),
     multi_control_pauli_count |->
       SAdd(self.multi_control_pauli_count, other.multi_control_pauli_count),
     multi_control_pauli_total_targets |->
       SAdd(self.multi_control_pauli_total_targets,
            other.multi_control_pauli_total_targets),
     measurement_total_qubits |->
       SAdd(self.measurement_total_qubits, other.measurement_total_qubits)])

\* a slip in one line of the field list: cswap scaled from the toffoli field
Mul_wrongField(self, other) ==
  DetailedGateCounts(
    [t |-> STimes(other, self.t),
     toffoli |-> STimes(other, self.toffoli),
     cswap |-> STimes(other, self.toffoli),
     and_bloq |-> STimes(other, self.and_bloq),
     rotation |-> STimes(other, self.rotation),
     hadamard |-> STimes(other, self.hadamard),
     s_gate |-> STimes(other, self.s_gate),
     cnot |-> STimes(other, self.cnot),
     arbitrary_1q_clifford |-> STimes(other, self.arbitrary_1q_clifford),
     arbitrary_2q_clifford |-> STimes(other, self.arbitrary_2q_clifford),
     multi_control_pauli_count |-> STimes(other, self.multi_control_pauli_count),
     multi_control_pauli_total_targets |->
       STimes(other, self.multi_control_pauli_total_targets),
     measurement_total_qubits |-> STimes(other, self.measurement_total_qubits)])

__mul__(self, other) ==
  DetailedGateCounts(
    [t |-> STimes(other, self.t),
     toffoli |-> STimes(other, self.toffoli),
     cswap |-> STimes(other, self.cswap),
     and_bloq |-> STimes(other, self.and_bloq),
     rotation |-> STimes(other, self.rotation),
     hadamard |-> STimes(other, self.hadamard),
     s_gate |-> STimes(other, self.s_gate),
     cnot |-> STimes(other, self.cnot),
     arbitrary_1q_clifford |-> STimes(other, self.arbitrary_1q_clifford),
     arbitrary_2q_clifford |-> STimes(other, self.arbitrary_2q_clifford),
     multi_control_pauli_count |-> STimes(other, self.multi_control_pauli_count),
     multi_control_pauli_total_targets |->
       STimes(other, self.multi_control_pauli_total_targets),
     measurement_total_qubits |-> STimes(other, self.measurement_total_qubits)])

__rmul__(self, other) == __mul__(self, other)

\* sympy.sympify(v): None stays None, a number becomes a sympy number
sympify(v) == IF v.tag = "none" THEN v ELSE [v EXCEPT !.tag = "sympy"]

\* bool(e) of a sympified value: only the number zero is falsy
Truthy(e) == ~(e.c = 0 /\ e.n = 0)

\* a zero test by type instead of by value: every sympy object counts as set
is_nonzero_byType(v) == v.tag # "int" \/ v.c # 0

_is_nonzero(v) ==
  LET maybe_nonzero == sympify(v)
  IN IF maybe_nonzero.tag = "none" THEN TRUE ELSE Truthy(maybe_nonzero)

\* the dict as the sequence of its (key, value) items, in insertion order
asdict(self) ==
  LET d == [i \in 1..Len(FieldOrder) |-> <<FieldOrder[i], self[FieldOrder[i]]>>]
  IN SelectSeq(d, LAMBDA kv : _is_nonzero(kv[2]))

\* str(v) of a counter value, as Python and sympy print it
FormatValue(v) ==
  IF v.tag = "none" THEN "None"
  ELSE IF v.n = 0 THEN ToString(v.c)
  ELSE LET sym == IF v.n = 1 THEN "n" ELSE ToString(v.n) \o "*n"
       IN IF v.c = 0 THEN sym ELSE sym \o " + " \o ToString(v.c)

RECURSIVE Join(_, _)
Join(sep, strs) ==
  IF Len(strs) = 0 THEN ""
  ELSE IF Len(strs) = 1 THEN strs[1]
  ELSE strs[1] \o sep \o Join(sep, Tail(strs))

__str__(self) ==
  LET items == asdict(self)
      strs == [i \in 1..Len(items) |-> items[i][1] \o ": " \o FormatValue(items[i][2])]
  IN IF Len(strs) > 0 THEN Join(", ", strs) ELSE "-"

\* SurfaceCodeGatesCost.zero
zero == DetailedGateCounts(<<>>)

(***************************************************************************)
(* Units (bloqs).  A unit carries its class, the attributes the rules read *)
(* and what the external call-graph walker reports for it.                 *)
(***************************************************************************)
Unavailable == [ok |-> FALSE, callees |-> <<>>]
Decomposes(cs) == [ok |-> TRUE, callees |-> cs]

Bloq(cls, dec) ==
  [cls |-> cls, uncompute |-> FALSE, bitsize |-> 0, n |-> 0, angle |-> "none",
   decomp |-> dec]

\* classify_bloqs.bloq_is_t_like: a TGate, or a rotation by an odd multiple of pi/4
bloq_is_t_like(b) ==
  b.cls = "TGate" \/ (b.cls = "ZPowGate" /\ b.angle = "t")

\* classify_bloqs.bloq_is_state_or_effect
bloq_is_state_or_effect(b) == b.cls = "ZeroState"

\* classify_bloqs.bloq_is_rotation: a rotation that is neither Clifford nor T-like
bloq_is_rotation(b) == b.cls = "ZPowGate" /\ b.angle = "generic"

\* _call_graph.get_bloq_callee_counts: the callee list, or DecomposeTypeError /
\* DecomposeNotImplementedError unless the caller asked to ignore the failure
get_bloq_callee_counts(b, ignore_decomp_failure) ==
  IF b.decomp.ok THEN b.decomp
  ELSE IF ignore_decomp_failure THEN Decomposes(<<>>)
  ELSE Unavailable

(***************************************************************************)
(* SurfaceCodeGatesCost.compute: the classification cascade.               *)
(***************************************************************************)
Match(kw) == [matched |-> TRUE, cost |-> DetailedGateCounts(kw)]
NoMatch == [matched |-> FALSE, cost |-> DetailedGateCounts(<<>>)]

\* the exact gate types, in the order of the isinstance tests
GateRules(b) ==
  IF bloq_is_t_like(b) THEN Match([t |-> PyInt(1)])
  ELSE IF b.cls = "Hadamard" THEN Match([hadamard |-> PyInt(1)])
  ELSE IF b.cls = "SGate" THEN Match([s_gate |-> PyInt(1)])
  ELSE IF b.cls = "Toffoli" THEN Match([toffoli |-> PyInt(1)])
  ELSE IF b.cls = "Measure" THEN Match([measurement_total_qubits |-> PyInt(1)])
  ELSE IF b.cls = "CNOT" THEN Match([cnot |-> PyInt(1)])
  ELSE IF b.cls = "And" THEN Match([and_bloq |-> PyInt(1)])
  ELSE IF b.cls = "TwoBitCSwap" THEN Match([cswap |-> PyInt(1)])
  ELSE IF b.cls = "MultiTargetCNOT"
    THEN Match([multi_control_pauli_count |-> PyInt(1),
                multi_control_pauli_total_targets |-> PyInt(b.bitsize)])
  ELSE NoMatch

\* the arity test dropped: every ArbitraryClifford counted as a 1-qubit one
CliffordRule_noArity(b) ==
  IF b.cls = "ArbitraryClifford"
    THEN Match([arbitrary_1q_clifford |-> PyInt(1)])
    ELSE NoMatch

CliffordRule(b) ==
  IF b.cls = "ArbitraryClifford"
    THEN IF b.n = 1 THEN Match([arbitrary_1q_clifford |-> PyInt(1)])
         ELSE IF b.n = 2 THEN Match([arbitrary_2q_clifford |-> PyInt(1)])
         ELSE NoMatch
    ELSE NoMatch

StateRule(b) == IF bloq_is_state_or_effect(b) THEN Match(<<>>) ELSE NoMatch

\* the isinstance test widened to every composite
BookkeepingRule_composite(b) ==
  IF b.cls \in {"Join", "GlobalPhase", "Identity", "CompositeBloq"}
    THEN Match(<<>>) ELSE NoMatch

BookkeepingRule(b) ==
  IF b.cls = "Join" \/ b.cls \in {"GlobalPhase", "Identity"}
    THEN Match(<<>>) ELSE NoMatch

\* the guard dropped: whatever reaches the rule is counted as a rotation
RotationRule_unguarded(b) == Match([rotation |-> PyInt(1)])

RotationRule(b) ==
  IF bloq_is_rotation(b) THEN Match([rotation |-> PyInt(1)]) ELSE NoMatch

Classify(b) ==
  IF GateRules(b).matched THEN GateRules(b)
  ELSE IF CliffordRule(b).matched THEN CliffordRule(b)
  ELSE IF StateRule(b).matched THEN StateRule(b)
  ELSE IF BookkeepingRule(b).matched THEN BookkeepingRule(b)
  ELSE RotationRule(b)

\* the recursive case: totals = DetailedGateCounts()
InitTotals == DetailedGateCounts(<<>>)

\* the failure of the walker is let through
IgnoreDecompFailure_lenient == TRUE

\* get_bloq_callee_counts(bloq, ignore_decomp_failure=False)
IgnoreDecompFailure == FALSE

\* the multiplicity left out of the fold
FoldTotals_noMult(totals, n_times_called, callee_cost) ==
  __add__(totals, callee_cost)

\* totals += n_times_called * callee_cost
FoldTotals(totals, n_times_called, callee_cost) ==
  __add__(totals, __rmul__(callee_cost, n_times_called))

(***************************************************************************)
(* The decomposition graphs the evaluation is run on.                      *)
(***************************************************************************)
UnitNames ==
  {"top", "p1", "p2", "sub", "x", "h", "mcx", "and_c", "and_u", "cnot",
   "x_cbloq", "sub_cbloq"}

Leaf(cls) == Bloq(cls, Unavailable)

\* a callee list holds only the callees that are called
Callees(pairs) == SelectSeq(pairs, LAMBDA p : p[2] > 0)

\* the unit "x": one of every kind the rules tell apart.  A MultiTargetCNOT
\* decomposes into a fan of CNOTs; an unknown atomic bloq either has no
\* decomposition or an empty call graph.
XUnits ==
  {Leaf(c) : c \in {"XGate", "TGate", "Hadamard", "SGate", "Toffoli", "Measure",
                    "CNOT", "TwoBitCSwap", "ZeroState", "Join", "GlobalPhase",
                    "Identity"}}
  \cup {[Leaf("ZPowGate") EXCEPT !.angle = a] : a \in {"pauli", "t", "generic"}}
  \cup {[Leaf("And") EXCEPT !.uncompute = u] : u \in BOOLEAN}
  \cup {[Bloq("MultiTargetCNOT", Decomposes(<<<<"cnot", q>>>>)) EXCEPT !.bitsize = k] :
          k \in 1..MaxBitsize, q \in 1..MaxMult}
  \cup {[Leaf("ArbitraryClifford") EXCEPT !.n = k] : k \in 1..MaxArity}
  \cup {Bloq("UnknownBloq", d) : d \in {Unavailable, Decomposes(<<>>)}}

\* top calls p1 and p2, both call sub, sub calls h and x; mcx is the
\* 3-control multi-controlled X; u_cbloq is u.decompose_bloq()
MkUnits(xu, m1, m2, a, b, c, d) ==
  LET subCallees == Callees(<<<<"h", m2>>, <<"x", m1>>>>)
  IN [u \in UnitNames |->
       CASE u = "x" -> xu
         [] u = "h" -> Leaf("Hadamard")
         [] u = "cnot" -> Leaf("CNOT")
         [] u = "and_c" -> Leaf("And")
         [] u = "and_u" -> [Leaf("And") EXCEPT !.uncompute = TRUE]
         [] u = "sub" -> Bloq("CostingBloq", Decomposes(subCallees))
         [] u = "p1" -> Bloq("CostingBloq", Decomposes(Callees(<<<<"sub", c>>>>)))
         [] u = "p2" -> Bloq("CostingBloq", Decomposes(Callees(<<<<"sub", d>>>>)))
         [] u = "top" ->
              Bloq("CostingBloq", Decomposes(Callees(<<<<"p1", a>>, <<"p2", b>>>>)))
         [] u = "mcx" ->
              Bloq("MultiControlX",
                   Decomposes(<<<<"and_c", 2>>, <<"and_u", 2>>, <<"cnot", 1>>>>))
         [] u = "x_cbloq" -> Bloq("CompositeBloq", Decomposes(xu.decomp.callees))
         [] u = "sub_cbloq" -> Bloq("CompositeBloq", Decomposes(subCallees))]

\* a shared sub-unit under two parents, every multiplicity varied
DagInstances ==
  {[units |-> MkUnits(Leaf("TGate"), m1, m2, a, b, c, d), root |-> "top"] :
     m1 \in 0..MaxMult, m2 \in 0..1, a \in 1..MaxMult, b \in 0..MaxMult,
     c \in 1..MaxMult, d \in 1..MaxMult}

\* every kind of unit, evaluated alone and under composites
UnitInstances ==
  {[units |-> MkUnits(xu, m1, m2, 1, 1, 1, 1), root |-> r] :
     xu \in XUnits, m1 \in 0..MaxMult, m2 \in 0..1,
     r \in {"x", "sub", "mcx", "top"}}

Instances == DagInstances \cup UnitInstances

CbloqOf(u) == IF u = "x" THEN "x_cbloq" ELSE "sub_cbloq"

(***************************************************************************)
(* The evaluation: get_cost_value drives compute depth first, with a memo  *)
(* per run.                                                                *)
(***************************************************************************)
NoResult == [error |-> "none"]
Off == [pc |-> "off"]
NoCalls == [u \in UnitNames |-> 0]

Init ==
  /\ \E i \in Instances : units = i.units /\ root = i.root
  /\ pc = "idle"
  /\ arg = "none"
  /\ retval = NoResult
  /\ stack = <<>>
  /\ memo = <<>>
  /\ computeCalls = NoCalls
  /\ enumCalls = NoCalls
  /\ result = NoResult
  /\ failed = "none"
  /\ run = 1
  /\ direct = NoResult
  /\ alg = Off
  /\ rnd = Off

Top == stack[Len(stack)]

\* get_cost_value(root, SurfaceCodeGatesCost()) with a fresh cache
get_cost_value ==
  /\ pc = "idle"
  /\ pc' = "call"
  /\ arg' = root
  /\ UNCHANGED <<units, root, retval, stack, memo, computeCalls, enumCalls,
                 result, failed, run, direct, alg, rnd>>

\* the unit has a cost in the cache
CacheHit ==
  /\ pc = "call"
  /\ arg \in DOMAIN memo
  /\ retval' = memo[arg]
  /\ pc' = "ret"
  /\ UNCHANGED <<units, root, arg, stack, memo, computeCalls, enumCalls,
                 result, failed, run, direct, alg, rnd>>

\* compute returns from one of the classification rules
compute_leaf ==
  /\ pc = "call"
  /\ arg \notin DOMAIN memo
  /\ Classify(units[arg]).matched
  /\ computeCalls' = [computeCalls EXCEPT ![arg] = @ + 1]
  /\ memo' = memo @@ (arg :> Classify(units[arg]).cost)
  /\ retval' = Classify(units[arg]).cost
  /\ pc' = "ret"
  /\ UNCHANGED <<units, root, arg, stack, enumCalls, result, failed, run,
                 direct, alg, rnd>>

\* compute reaches the recursive case and the callees are enumerated
compute_recurse ==
  /\ pc = "call"
  /\ arg \notin DOMAIN memo
  /\ ~Classify(units[arg]).matched
  /\ LET callees == get_bloq_callee_counts(units[arg], IgnoreDecompFailure)
     IN /\ callees.ok
        /\ stack' = Append(stack, [unit |-> arg, callees |-> callees.callees,
                                   idx |-> 1, totals |-> InitTotals])
  /\ computeCalls' = [computeCalls EXCEPT ![arg] = @ + 1]
  /\ enumCalls' = [enumCalls EXCEPT ![arg] = @ + 1]
  /\ pc' = "loop"
  /\ UNCHANGED <<units, root, arg, retval, memo, result, failed, run, direct,
                 alg, rnd>>

\* compute reaches the recursive case and the enumeration raises: the
\* exception unwinds every compute on the stack
compute_raise ==
  /\ pc = "call"
  /\ arg \notin DOMAIN memo
  /\ ~Classify(units[arg]).matched
  /\ ~get_bloq_callee_counts(units[arg], IgnoreDecompFailure).ok
  /\ computeCalls' = [computeCalls EXCEPT ![arg] = @ + 1]
  /\ enumCalls' = [enumCalls EXCEPT ![arg] = @ + 1]
  /\ failed' = arg
  /\ stack' = <<>>
  /\ pc' = "error"
  /\ UNCHANGED <<units, root, arg, retval, memo, result, run, direct, alg, rnd>>

\* for callee, n_times_called in callees: get_callee_cost(callee)
call_callee ==
  /\ pc = "loop"
  /\ Top.idx <= Len(Top.callees)
  /\ arg' = Top.callees[Top.idx][1]
  /\ pc' = "call"
  /\ UNCHANGED <<units, root, retval, stack, memo, computeCalls, enumCalls,
                 result, failed, run, direct, alg, rnd>>

\* totals += n_times_called * callee_cost
fold_callee ==
  /\ pc = "ret"
  /\ stack # <<>>
  /\ stack' = [stack EXCEPT ![Len(stack)] =
                 [@ EXCEPT !.totals = FoldTotals(@, Top.callees[Top.idx][2], retval),
                           !.idx = @ + 1]]
  /\ pc' = "loop"
  /\ UNCHANGED <<units, root, arg, retval, memo, computeCalls, enumCalls,
                 result, failed, run, direct, alg, rnd>>

\* return totals, which the driver caches
compute_return ==
  /\ pc = "loop"
  /\ Top.idx > Len(Top.callees)
  /\ memo' = memo @@ (Top.unit :> Top.totals)
  /\ retval' = Top.totals
  /\ stack' = SubSeq(stack, 1, Len(stack) - 1)
  /\ pc' = "ret"
  /\ UNCHANGED <<units, root, arg, computeCalls, enumCalls, result, failed,
                 run, direct, alg, rnd>>

\* the cost of the root goes back to the caller
return_cost_value ==
  /\ pc = "ret"
  /\ stack = <<>>
  /\ result' = retval
  /\ pc' = "done"
  /\ UNCHANGED <<units, root, arg, retval, stack, memo, computeCalls,
                 enumCalls, failed, run, direct, alg, rnd>>

\* cbloq = bloq.decompose_bloq(); get_cost_value(cbloq, ...) in a second run
decompose_bloq ==
  /\ pc = "done"
  /\ run = 1
  /\ root \in {"x", "sub"}
  /\ units[root].decomp.ok
  /\ direct' = result
  /\ run' = 2
  /\ root' = CbloqOf(root)
  /\ arg' = CbloqOf(root)
  /\ memo' = <<>>
  /\ computeCalls' = NoCalls
  /\ enumCalls' = NoCalls
  /\ result' = NoResult
  /\ pc' = "call"
  /\ UNCHANGED <<units, retval, stack, failed, alg, rnd>>

Next ==
  \/ get_cost_value
  \/ CacheHit
  \/ compute_leaf
  \/ compute_recurse
  \/ compute_raise
  \/ call_callee
  \/ fold_callee
  \/ compute_return
  \/ return_cost_value
  \/ decompose_bloq

Spec == Init /\ [][Next]_vars

(***************************************************************************)
(* Properties of the evaluation.                                           *)
(***************************************************************************)
\* the total of a unit as the recursive weighted sum over its callees
RECURSIVE Total(_), SumCallees(_, _)
Total(u) ==
  IF Classify(units[u]).matched THEN Classify(units[u]).cost
  ELSE SumCallees(units[u].decomp.callees, 1)
SumCallees(cs, i) ==
  IF i > Len(cs) THEN zero
  ELSE __add__(__mul__(Total(cs[i][1]), cs[i][2]), SumCallees(cs, i + 1))

\* the units an evaluation of u visits
RECURSIVE Reach(_)
Reach(u) ==
  {u} \cup
  IF Classify(units[u]).matched THEN {}
  ELSE UNION {Reach(units[u].decomp.callees[i][1]) :
                i \in 1..Len(units[u].decomp.callees)}

\* how often u calls v
Mult(u, v) ==
  LET cs == units[u].decomp.callees
      hits == {i \in 1..Len(cs) : cs[i][1] = v}
  IN IF hits = {} THEN 0 ELSE cs[CHOOSE i \in hits : TRUE][2]

\* the classes no classification rule names
NoRuleClass(b) ==
  b.cls \in {"UnknownBloq", "CostingBloq", "CompositeBloq", "MultiControlX"}

IsPauli(b) == b.cls = "XGate" \/ (b.cls = "ZPowGate" /\ b.angle = "pauli")

Finished == pc = "done" \/ pc = "error"

\* C1: the root's total is the sum over its callees of multiplicity times
\* callee total, recursively; a sub-unit shared by two parents contributes its
\* cost times the sum of the incoming multiplicities, and compute runs exactly
\* once for every unit visited in a run.
C1_RecursiveSumComputedOnce ==
  /\ \A u \in UnitNames : computeCalls[u] <= 1
  /\ pc = "done" =>
       /\ Eq(result, Total(root))
       /\ \A u \in Reach(root) : computeCalls[u] = 1
       /\ root = "top" =>
            Eq(result,
               __mul__(Total("sub"),
                       Mult("top", "p1") * Mult("p1", "sub")
                         + Mult("top", "p2") * Mult("p2", "sub")))

\* a run over the shared sub-unit (2 T-like units and 1 Hadamard) reached
\* through both parents with unequal multiplicities
C1_Witness ==
  /\ pc = "done"
  /\ root = "top"
  /\ Mult("top", "p1") = 2
  /\ Mult("top", "p2") = 1
  /\ Mult("p1", "sub") = 1
  /\ Mult("p2", "sub") = 2
  /\ Eq(Total("sub"), DetailedGateCounts([t |-> PyInt(2), hadamard |-> PyInt(1)]))
  /\ Eq(result, DetailedGateCounts([t |-> PyInt(8), hadamard |-> PyInt(4)]))
  /\ computeCalls["sub"] = 1

\* C2: evaluating a single-qubit Pauli unit ends with the zero cost.
C2_PauliCostsZero ==
  (run = 1 /\ Finished /\ IsPauli(units[root])) =>
     (pc = "done" /\ Eq(result, zero))

\* C3: an And with the uncompute flag costs one measurement and no And, an
\* And without it costs one And, and the 3-control multi-controlled X costs
\* 2 Ands, 2 measurements and 1 CNOT.
C3_UncomputeAndIsMeasurement ==
  (run = 1 /\ pc = "done") =>
     /\ (root = "x" /\ units["x"].cls = "And") =>
          IF units["x"].uncompute
            THEN Eq(result, DetailedGateCounts([measurement_total_qubits |-> PyInt(1)]))
            ELSE Eq(result, DetailedGateCounts([and_bloq |-> PyInt(1)]))
     /\ root = "mcx" =>
          Eq(result, DetailedGateCounts([and_bloq |-> PyInt(2),
                                         measurement_total_qubits |-> PyInt(2),
                                         cnot |-> PyInt(1)]))

C5_MultiTargetFieldNames ==
  (run = 1 /\ pc = "done" /\ root = "x" /\ units["x"].cls = "MultiTargetCNOT") =>
     LET expected ==
           DetailedGateCounts(
             [multi_target_pauli_count |-> PyInt(1),
              multi_target_pauli_total_targets |-> PyInt(units["x"].bitsize)])
     IN IsDetailedGateCounts(expected) /\ Eq(result, expected)

\* C6 as stated: an ArbitraryClifford of arity 1 adds 1 to the 1-qubit
\* counter, one of arity 2 adds 2 to the 2-qubit counter, and neither has its
\* callees enumerated.
C6_TwoQubitCliffordWeighsTwo ==
  (run = 1 /\ pc = "done" /\ root = "x" /\ units["x"].cls = "ArbitraryClifford") =>
     /\ enumCalls["x"] = 0
     /\ units["x"].n = 1 =>
          Eq(result, DetailedGateCounts([arbitrary_1q_clifford |-> PyInt(1)]))
     /\ units["x"].n = 2 =>
          Eq(result, DetailedGateCounts([arbitrary_2q_clifford |-> PyInt(2)]))

\* C6 as amended: arity 1 adds 1 to the 1-qubit counter, arity 2 adds 1 to
\* the 2-qubit counter, and neither has its callees enumerated.
C6_CliffordByArity ==
  /\ (Finished /\ units["x"].cls = "ArbitraryClifford" /\ units["x"].n \in {1, 2}) =>
        enumCalls["x"] = 0
  /\ (run = 1 /\ pc = "done" /\ root = "x" /\ units["x"].cls = "ArbitraryClifford") =>
        /\ units["x"].n = 1 =>
             Eq(result, DetailedGateCounts([arbitrary_1q_clifford |-> PyInt(1)]))
        /\ units["x"].n = 2 =>
             Eq(result, DetailedGateCounts([arbitrary_2q_clifford |-> PyInt(1)]))

C6_Witness ==
  /\ pc = "done"
  /\ root = "x"
  /\ units["x"].cls = "ArbitraryClifford"
  /\ units["x"].n = 2
  /\ computeCalls["x"] = 1

C10_StrictFailureIsFatal ==
  /\ pc = "error" =>
       /\ ~Classify(units[failed]).matched
       /\ ~units[failed].decomp.ok
       /\ result = NoResult
       /\ stack = <<>>
       /\ root \notin DOMAIN memo
       /\ ~ENABLED Next
  /\ pc = "done" =>
       \A u \in UnitNames :
         (computeCalls[u] > 0 /\ ~Classify(units[u]).matched) => units[u].decomp.ok

\* the failure comes after a callee has been folded into a running total
C10_Witness ==
  /\ pc = "error"
  /\ root = "top"
  /\ failed = "x"
  /\ "h" \in DOMAIN memo
  /\ units["x"].cls = "UnknownBloq"

(***************************************************************************)
(* The cost-value algebra on its own: a cost value and two scalars are     *)
(* drawn, v * k, k * v and the sum of two products are computed.           *)
(***************************************************************************)
EvalOff ==
  /\ units = <<>>
  /\ root = "none"
  /\ pc = "off"
  /\ arg = "none"
  /\ retval = NoResult
  /\ stack = <<>>
  /\ memo = <<>>
  /\ computeCalls = <<>>
  /\ enumCalls = <<>>
  /\ result = NoResult
  /\ failed = "none"
  /\ run = 0
  /\ direct = NoResult

\* counter values: Python ints and multiples of the symbol n, 0*n included
AlgVals ==
  {PyInt(c) : c \in 0..MaxCoeff} \cup {Sym(0, a) : a \in 0..MaxCoeff}

Before(f, g) ==
  \E i \in 1..Len(FieldOrder), j \in 1..Len(FieldOrder) :
    i < j /\ FieldOrder[i] = f /\ FieldOrder[j] = g

InitAlg ==
  /\ EvalOff
  /\ rnd = Off
  /\ \E f \in Fields, g \in Fields, x \in AlgVals, y \in AlgVals,
        k1 \in 0..MaxScalar, k2 \in 0..MaxScalar :
       /\ Before(f, g)
       /\ alg = [pc |-> "start", v |-> DetailedGateCounts((f :> x) @@ (g :> y)),
                 k1 |-> k1, k2 |-> k2]

\* v * k1, v * k2, v * (k1 + k2)
Scale ==
  /\ alg.pc = "start"
  /\ alg' = [pc |-> "scaled", v |-> alg.v, k1 |-> alg.k1, k2 |-> alg.k2,
             prod1 |-> __mul__(alg.v, alg.k1),
             prod2 |-> __mul__(alg.v, alg.k2),
             prodSum |-> __mul__(alg.v, alg.k1 + alg.k2)]
  /\ UNCHANGED <<evalVars, rnd>>

\* k1 * v
RScale ==
  /\ alg.pc = "scaled"
  /\ alg' = [pc |-> "rscaled", v |-> alg.v, k1 |-> alg.k1, k2 |-> alg.k2,
             prod1 |-> alg.prod1, prod2 |-> alg.prod2, prodSum |-> alg.prodSum,
             rprod |-> __rmul__(alg.v, alg.k1)]
  /\ UNCHANGED <<evalVars, rnd>>

\* (v * k1) + (v * k2)
Sum ==
  /\ alg.pc = "rscaled"
  /\ alg' = [pc |-> "summed", v |-> alg.v, k1 |-> alg.k1, k2 |-> alg.k2,
             prod1 |-> alg.prod1, prod2 |-> alg.prod2, prodSum |-> alg.prodSum,
             rprod |-> alg.rprod, sum |-> __add__(alg.prod1, alg.prod2)]
  /\ UNCHANGED <<evalVars, rnd>>

NextAlg == Scale \/ RScale \/ Sum

SpecAlg == InitAlg /\ [][NextAlg]_vars

\* p is v with every counter multiplied by k
ScaledBy(p, v, k) ==
  /\ IsDetailedGateCounts(p)
  /\ \A f \in Fields : p[f].c = k * v[f].c /\ p[f].n = k * v[f].n
  /\ k = 0 => Eq(p, zero)
  /\ k = 1 => Eq(p, v)

\* C8: v * (k1 + k2) == v * k1 + v * k2, v * 0 == zero(), v * 1 == v,
\* k * v == v * k, and every field of a product is the scalar times the field.
C8_ScaleLaws ==
  /\ alg.pc \in {"scaled", "rscaled", "summed"} =>
       /\ ScaledBy(alg.prod1, alg.v, alg.k1)
       /\ ScaledBy(alg.prod2, alg.v, alg.k2)
       /\ ScaledBy(alg.prodSum, alg.v, alg.k1 + alg.k2)
  /\ alg.pc \in {"rscaled", "summed"} => Eq(alg.rprod, alg.prod1)
  /\ alg.pc = "summed" => Eq(alg.prodSum, alg.sum)

\* a value with a concrete and a symbolic counter, scaled by 1, 2 and 3
C8_Witness ==
  /\ alg.pc = "summed"
  /\ alg.k1 = 1
  /\ alg.k2 = 2
  /\ alg.v.toffoli = PyInt(1)
  /\ alg.v.cswap = Sym(0, 2)
  /\ alg.sum.toffoli = PyInt(3)
  /\ alg.sum.cswap = Sym(0, 6)

(***************************************************************************)
(* The rendering on its own: a cost value is drawn, asdict and str are     *)
(* taken of it.                                                            *)
(***************************************************************************)
\* counter values: ints, expressions c + a*n (the sympy zero included), None
RenderVals ==
  {PyInt(c) : c \in 0..MaxCoeff}
  \cup {Sym(c, a) : c \in 0..1, a \in 0..MaxCoeff}
  \cup {NoneVal}

InitRender ==
  /\ EvalOff
  /\ alg = Off
  /\ \E f \in Fields, g \in Fields, x \in RenderVals, y \in RenderVals, m \in 0..1 :
       /\ Before(f, g)
       /\ rnd = [pc |-> "start",
                 gc |-> DetailedGateCounts(
                          (f :> x) @@ (g :> y)
                            @@ ("measurement_total_qubits" :> PyInt(m)))]

call_asdict ==
  /\ rnd.pc = "start"
  /\ rnd' = [pc |-> "dict", gc |-> rnd.gc, d |-> asdict(rnd.gc)]
  /\ UNCHANGED <<evalVars, alg>>

call_str ==
  /\ rnd.pc = "dict"
  /\ rnd' = [pc |-> "str", gc |-> rnd.gc, d |-> rnd.d, s |-> __str__(rnd.gc)]
  /\ UNCHANGED <<evalVars, alg>>

NextRender == call_asdict \/ call_str

SpecRender == InitRender /\ [][NextRender]_vars

\* the value is not the number zero
NonZeroValue(v) == v.tag = "none" \/ v.c # 0 \/ v.n # 0

FieldIndex(f) == CHOOSE i \in 1..Len(FieldOrder) : FieldOrder[i] = f

\* the 'name: value' pairs of the non-zero fields from the i-th on
RECURSIVE Listing(_, _, _)
Listing(gc, i, first) ==
  IF i > Len(FieldOrder) THEN ""
  ELSE IF NonZeroValue(gc[FieldOrder[i]])
    THEN (IF first THEN "" ELSE ", ")
           \o FieldOrder[i] \o ": " \o FormatValue(gc[FieldOrder[i]])
           \o Listing(gc, i + 1, FALSE)
    ELSE Listing(gc, i + 1, first)

\* C9: asdict holds exactly the fields whose value is not zero, in
\* declaration order; str lists them as 'name: value' joined by ', ' and is
\* '-' when every field is zero; a sympy zero is left out like the int 0.
C9_RenderNonZeroFields ==
  /\ rnd.pc \in {"dict", "str"} =>
       /\ {rnd.d[i][1] : i \in 1..Len(rnd.d)} =
            {f \in Fields : NonZeroValue(rnd.gc[f])}
       /\ \A i \in 1..Len(rnd.d) : rnd.d[i][2] = rnd.gc[rnd.d[i][1]]
       /\ \A i \in 1..Len(rnd.d), j \in 1..Len(rnd.d) :
            i < j => FieldIndex(rnd.d[i][1]) < FieldIndex(rnd.d[j][1])
  /\ rnd.pc = "str" =>
       /\ (rnd.s = "-") <=> (\A f \in Fields : ~NonZeroValue(rnd.gc[f]))
       /\ (\E f \in Fields : NonZeroValue(rnd.gc[f])) =>
             rnd.s = Listing(rnd.gc, 1, TRUE)

\* t = n with toffoli = sympify('0') renders as 't: n'
C9_Witness ==
  /\ rnd.pc = "str"
  /\ rnd.gc.t = Sym(0, 1)
  /\ rnd.gc.toffoli = Sym(0, 0)
  /\ rnd.s = "t: n"

====
